---- MODULE Spec2Model ----
(***************************************************************************)
(* Model of src/multimedia/image/convertojpgxl.py: the batch loop of main  *)
(* and process_file (conflict resolution, quality search loop, final save  *)
(* decision, copy_original, copy_metadata).                                *)
(*                                                                         *)
(* A file's bytes are modelled by a content record: the kind of content,   *)
(* the input file it stems from, the conversion method and quality that    *)
(* produced it, its byte length, and whether exiftool rewrote it.          *)
(* A relative path is [stem, ext]: stem stands for the relative path       *)
(* without its suffix, ext for the (lower-case) suffix.                    *)
(*                                                                         *)
(* Scope of the model:                                                     *)
(*  - one suffix stands for each family the code tells apart: .jpg for the *)
(*    JPEG family, .heic for HEIC/HEIF, .png for the other image formats,  *)
(*    .gif for the unsupported formats that main copies;                   *)
(*  - every source file has SrcSize bytes; a payload is empty, smaller     *)
(*    than, as large as, or larger than the source;                        *)
(*  - every result of cjxl and of the Pillow decode is chosen anew at each *)
(*    call;                                                                *)
(*  - of the I/O errors, the OSError of input_file.stat() is modelled;     *)
(*    directories, and the source tree itself, are not part of the state;  *)
(*  - iters, tried, last, dst0 and status are history variables: the       *)
(*    number of loop iterations, the quality levels attempted, the last    *)
(*    iteration's calls and result, the destination tree when the current  *)
(*    item was taken up, and the status lines printed per file.            *)
(*                                                                         *)
(* Model of src/io/fs/deleteduplicate.py: clean_duplicates_recursive, run  *)
(* over a tree of two directories.  A file of that tree is                 *)
(* [dir, stem, ext], with ext as it is spelled on disk; the file system    *)
(* is case-sensitive or not.  fs0, the tree before the run, is a history   *)
(* variable.  The two programs share no state: each specification keeps    *)
(* the other program's variables as they are.                              *)
(***************************************************************************)
EXTENDS Integers, Sequences, FiniteSets, TLC

\* ---------------------------------------------------------------- bounds
NumStems == 2
NumFiles == 2
SrcSize == 2
MaxIters == 4
MaxEntries == 3

\* ------------------------------------------------------ program constants
StartQuality == 90
QualityStep == 5

IMAGE_EXTS == {".jpg", ".png", ".heic"}
UNSUPPORTED_EXTS == {".gif"}
JpegExts == {".jpg"}
HeicExts == {".heic"}

SrcExts == IMAGE_EXTS \cup UNSUPPORTED_EXTS
Stems == 1..NumStems
SrcPaths == [stem : Stems, ext : SrcExts]
DstPaths == [stem : Stems, ext : SrcExts \cup {".jxl"}]

\* Order of pathlib paths under sorted(): by stem, then by suffix.
ExtRank(e) ==
  CASE e = ".gif" -> 1 [] e = ".heic" -> 2 [] e = ".jpg" -> 3
    [] e = ".jxl" -> 4 [] OTHER -> 5

PathLess(a, b) ==
  \/ a.stem < b.stem
  \/ a.stem = b.stem /\ ExtRank(a.ext) < ExtRank(b.ext)

\* ------------------------------------------------------------- contents
NoMethod == <<"None">>
NoFile == [kind |-> "none", file |-> 0, method |-> NoMethod, q |-> 0, len |-> 0, meta |-> FALSE]
OldBytes == [kind |-> "old", file |-> 0, method |-> NoMethod, q |-> 0, len |-> 1, meta |-> FALSE]
SrcBytes(i) == [kind |-> "src", file |-> i, method |-> NoMethod, q |-> 0, len |-> 0, meta |-> FALSE]
JxlBytes(i, m, q, n) == [kind |-> "jxl", file |-> i, method |-> m, q |-> q, len |-> n, meta |-> FALSE]
None == NoFile

\* ------------------------------------------------- external collaborators
\* One run of the cjxl process: exit code and length of stdout.
\* Payloads are empty, smaller than the source, as large, or larger.
PayloadLens == 0..(SrcSize + 1)
CjxlFailure == [code |-> 1, len |-> 0]
CjxlResults ==
  {CjxlFailure} \cup {[code |-> 0, len |-> n] : n \in PayloadLens}
\* One Pillow decode followed (when it succeeds) by one cjxl run.
DecodeFailure == [decoded |-> FALSE, code |-> 1, len |-> 0]
PillowResults ==
  {DecodeFailure}
    \cup {[decoded |-> TRUE, code |-> r.code, len |-> r.len] : r \in CjxlResults}

VARIABLES
  args, HAS_PILLOW, all_files, dst,
  idx, pc, cur,
  src_size, min_quality, current_quality, final_jxl_data, final_method,
  status, dst0, iters, tried, last

\* clean_duplicates_recursive: its arguments, the tree it runs over, and
\* its position (the directories os.walk has yet to yield, the removals
\* pending in the current directory).
VARIABLES
  keep_extension, dry_run, case_sensitive, fs, fs0,
  cpc, walk, current_dir, todo, total_deleted

cleaner == <<keep_extension, dry_run, case_sensitive, fs, fs0,
             cpc, walk, current_dir, todo, total_deleted>>

vars == <<args, HAS_PILLOW, all_files, dst, idx, pc, cur,
          src_size, min_quality, current_quality, final_jxl_data, final_method,
          status, dst0, iters, tried, last, cleaner>>

config == <<args, HAS_PILLOW, all_files>>
locals == <<src_size, min_quality, current_quality, final_jxl_data, final_method>>
history == <<iters, tried, last>>
converter == <<config, dst, idx, pc, cur, locals, status, dst0, history>>
\* The results an external call can have when it is made; a call that is
\* not made has no result to choose.
CjxlCalls(made) == IF made THEN CjxlResults ELSE {CjxlFailure}
PillowCalls(made, has) == IF made /\ has THEN PillowResults ELSE {DecodeFailure}

\* ------------------------------------------------------- pure helpers
\* output_file = dst_root / rel.with_suffix(".jxl")
OutputFile(p) == [stem |-> p.stem, ext |-> ".jxl"]
\* out = dst_root / rel
CopyTarget(p) == p

Exists(tree, p) == tree[p].kind # "none"

is_jpeg(p) == p.ext \in JpegExts
is_heic(p) == p.ext \in HeicExts

\* match (args.compress_lq, args.compress_mq, args.compress_hq)
MinQuality(a) ==
  IF a.compress_lq THEN 75
  ELSE IF a.compress_mq THEN 80
  ELSE IF a.compress_hq THEN 85
  ELSE 90

\* current_quality -= 5
StepDown(q) == q - QualityStep

\* Mutant: the floor itself still allows a step down.
MayStepDown_AtFloor(q, minq) == q >= minq

\* if current_quality > min_quality: step down and retry
MayStepDown(q, minq) == q > minq

\* Mutant: --skip is not looked at.
Resolve_IgnoresSkip(exists, a) ==
  IF exists /\ ~a.overwrite /\ ~a.skip THEN "prompt" ELSE "begin"

\* Mutant: --overwrite returns like --skip.
Resolve_OverwriteSkips(exists, a) ==
  IF exists THEN
    IF a.skip \/ a.overwrite THEN "skip" ELSE "prompt"
  ELSE "begin"

\* CONFLICT RESOLUTION of process_file: what follows from the existence of
\* output_file and the policy.
Resolve(exists, a) ==
  IF exists THEN
    IF a.skip THEN "skip"
    ELSE IF a.overwrite THEN "begin"
    ELSE "prompt"
  ELSE "begin"

\* if user_input == "y": break / elif user_input == "n": return / ask again
Answer(user_input) ==
  IF user_input = "y" THEN "begin"
  ELSE IF user_input = "n" THEN "skip"
  ELSE "prompt"

\* if jxl_data:  (empty bytes are falsy)
Truthy(n) == n > 0

\* if jxl_size < src_size
Smaller(n, size) == n < size

\* Mutant: a payload as large as the source is persisted too.
ShouldPersist_OrEqual(n, size, force) == n <= size \/ force

\* if jxl_size < src_size or args.force_jxl
ShouldPersist(n, size, force) == n < size \/ force

\* Mutant: a payload as large as the source is reported as a gain.
SaveStatus_Strict(n, size) == IF n > size THEN "FORCED" ELSE "OK"

\* status = "[OK]"; if jxl_size >= src_size: status = "[FORCED]"
SaveStatus(n, size) == IF n >= size THEN "FORCED" ELSE "OK"

\* Mutant: the original is copied over the .jxl path.
CopyOriginal_OverOutput(tree, i, p) == [tree EXCEPT ![OutputFile(p)] = SrcBytes(i)]

\* copy_original: the copy is written only when nothing is at the target.
CopyOriginal(tree, i, p) ==
  IF Exists(tree, CopyTarget(p)) THEN tree
  ELSE [tree EXCEPT ![CopyTarget(p)] = SrcBytes(i)]

\* Mutant: the original is kept after a hard failure even under --force-jxl.
CopyOnFailure_Always(a) == TRUE

\* except Exception as e_fallback: ... if not args.force_jxl: copy_original(...)
CopyOnFailure(a) == ~a.force_jxl

\* convert_via_pillow: raises without decoding when the libraries are
\* missing, raises when the decode fails, raises when cjxl exits non-zero.
convert_via_pillow(has, p) ==
  IF ~has THEN [raised |-> TRUE, len |-> 0, enc |-> 0, dec |-> 0]
  ELSE IF ~p.decoded THEN [raised |-> TRUE, len |-> 0, enc |-> 0, dec |-> 1]
  ELSE IF p.code # 0 THEN [raised |-> TRUE, len |-> 0, enc |-> 1, dec |-> 1]
  ELSE [raised |-> FALSE, len |-> p.len, enc |-> 1, dec |-> 1]

\* ATTEMPT 1 of one loop iteration: the primary strategies for the format.
Primary(p, q, has, r1, r2, p1) ==
  IF is_heic(p) THEN
    LET c == convert_via_pillow(has, p1) IN
    [raised |-> c.raised, len |-> c.len, method |-> <<"Pillow-HEIC-Q", q>>,
     calls |-> <<"FallbackDecodeEncode">>, enc |-> c.enc, dec |-> c.dec]
  ELSE IF is_jpeg(p) THEN
    IF q = StartQuality THEN
      IF r1.code = 0 THEN
        [raised |-> FALSE, len |-> r1.len, method |-> <<"JPEG-Transcode">>,
         calls |-> <<"LosslessTranscode">>, enc |-> 1, dec |-> 0]
      ELSE
        [raised |-> r2.code # 0, len |-> r2.len, method |-> <<"JPEG-ReEncode-Q", q>>,
         calls |-> <<"LosslessTranscode", "QualityReencode">>, enc |-> 2, dec |-> 0]
    ELSE
      [raised |-> r1.code # 0, len |-> r1.len, method |-> <<"JPEG-ReEncode-Q", q>>,
       calls |-> <<"QualityReencode">>, enc |-> 1, dec |-> 0]
  ELSE
    [raised |-> r1.code # 0, len |-> r1.len, method |-> <<"Direct-CJXL-Q", q>>,
     calls |-> <<"QualityReencode">>, enc |-> 1, dec |-> 0]

\* Mutant: the Pillow fallback runs in every iteration, whether or not the
\* primary strategies failed.
Iteration_AlwaysFallback(p, q, has, r1, r2, p1, p2) ==
  LET a == Primary(p, q, has, r1, r2, p1)
      f == convert_via_pillow(has, p2)
  IN
  [failed |-> f.raised, len |-> f.len, method |-> <<"Fallback-Pillow-Q", q>>,
   calls |-> a.calls \o <<"FallbackDecodeEncode">>,
   enc |-> a.enc + f.enc, dec |-> a.dec + f.dec]

\* One pass through the try/except of the loop body: ATTEMPT 1, and on any
\* exception ATTEMPT 2 (the Pillow fallback).  failed means both raised.
Iteration(p, q, has, r1, r2, p1, p2) ==
  LET a == Primary(p, q, has, r1, r2, p1) IN
  IF ~a.raised THEN
    [failed |-> FALSE, len |-> a.len, method |-> a.method, calls |-> a.calls,
     enc |-> a.enc, dec |-> a.dec]
  ELSE
    LET f == convert_via_pillow(has, p2) IN
    [failed |-> f.raised, len |-> f.len, method |-> <<"Fallback-Pillow-Q", q>>,
     calls |-> a.calls \o <<"FallbackDecodeEncode">>,
     enc |-> a.enc + f.enc, dec |-> a.dec + f.dec]

\* ----------------------------------------------------------- initial state
\* argparse: --overwrite/--skip are mutually exclusive, and so are
\* --compress-hq/--compress-mq/--compress-lq; --copy defaults to [].
ArgsOf(copies) ==
  {a \in [force_jxl : BOOLEAN, overwrite : BOOLEAN, skip : BOOLEAN,
          compress_lq : BOOLEAN, compress_mq : BOOLEAN, compress_hq : BOOLEAN,
          copy : copies] :
     /\ ~(a.overwrite /\ a.skip)
     /\ ~(a.compress_lq /\ a.compress_mq)
     /\ ~(a.compress_lq /\ a.compress_hq)
     /\ ~(a.compress_mq /\ a.compress_hq)}

\* all_files = sorted(list(src.rglob("*"))): n distinct paths in ascending order.
SortedLists(n) ==
  {l \in [1..n -> SrcPaths] : \A i \in 1..(n - 1) : PathLess(l[i], l[i + 1])}

\* Paths of the destination tree that the run reads or writes.
Touched(l) ==
  {OutputFile(l[i]) : i \in 1..Len(l)} \cup {CopyTarget(l[i]) : i \in 1..Len(l)}

\* Destination trees before the run: any file the run can meet is absent or
\* holds bytes of an earlier origin.
Trees(l) ==
  {[p \in DstPaths |-> IF p \in present THEN OldBytes ELSE NoFile] :
     present \in SUBSET Touched(l)}

NoIter == [q |-> 0, calls |-> <<>>, len |-> 0, failed |-> FALSE, method |-> NoMethod, enc |-> 0, dec |-> 0]

\* clean_duplicates_recursive is not running.
CleanerIdle ==
  /\ keep_extension = ".jxl"
  /\ dry_run = TRUE
  /\ case_sensitive = TRUE
  /\ fs = {}
  /\ fs0 = {}
  /\ cpc = "idle"
  /\ walk = <<>>
  /\ current_dir = "top"
  /\ todo = <<>>
  /\ total_deleted = 0

Start ==
  /\ idx = 1
  /\ pc = "main"
  /\ cur = 0
  /\ src_size = 0
  /\ min_quality = 0
  /\ current_quality = 0
  /\ final_jxl_data = None
  /\ final_method = NoMethod
  /\ status = [i \in 1..Len(all_files) |-> <<>>]
  /\ dst0 = dst
  /\ iters = 0
  /\ tried = {}
  /\ last = NoIter

\* A run over a source tree holding one file, under any arguments, into a
\* destination tree in which any file the run can meet may already exist.
Init ==
  /\ args \in ArgsOf({{}, {".png"}})
  /\ HAS_PILLOW \in BOOLEAN
  /\ all_files \in {l \in SortedLists(1) : l[1].stem = 1}
  /\ dst \in Trees(all_files)
  /\ Start
  /\ CleanerIdle

\* A run over a source tree holding NumFiles files, with the default quality
\* floor and Pillow installed, into an empty destination tree.
InitBatch ==
  /\ args \in {a \in ArgsOf({{}, {".png"}}) : MinQuality(a) = StartQuality}
  /\ HAS_PILLOW = TRUE
  /\ all_files \in SortedLists(NumFiles)
  /\ dst = [p \in DstPaths |-> NoFile]
  /\ Start
  /\ CleanerIdle

Report(i, s) == [status EXCEPT ![i] = Append(@, s)]

ResetHistory ==
  /\ iters' = 0
  /\ tried' = {}
  /\ last' = NoIter

\* ------------------------------------------------------------------ main
\* for item in all_files: direct copy, or process_file up to the end of
\* its conflict resolution.
MainStep ==
  /\ pc = "main"
  /\ idx <= Len(all_files)
  /\ LET item == all_files[idx] IN
     /\ idx' = idx + 1
     /\ cur' = idx
     /\ dst0' = dst
     /\ ResetHistory
     /\ UNCHANGED <<cleaner, config, locals>>
     /\ IF item.ext \in args.copy \/ item.ext \in UNSUPPORTED_EXTS THEN
          /\ pc' = "main"
          /\ IF ~Exists(dst, CopyTarget(item)) THEN
               /\ dst' = [dst EXCEPT ![CopyTarget(item)] = SrcBytes(idx)]
               /\ status' = Report(idx, "COPY")
             ELSE UNCHANGED <<dst, status>>
        ELSE
          /\ item.ext \in IMAGE_EXTS
          /\ UNCHANGED dst
          /\ LET r == Resolve(Exists(dst, OutputFile(item)), args) IN
             /\ pc' = IF r = "skip" THEN "main" ELSE r
             /\ status' = IF r = "skip" THEN Report(idx, "SKIP") ELSE status

\* print("--- Processing Complete ---")
MainDone ==
  /\ pc = "main"
  /\ idx > Len(all_files)
  /\ pc' = "finished"
  /\ UNCHANGED <<cleaner, config, dst, idx, cur, locals, status, dst0, history>>

\* while True: user_input = input(...).strip().lower()
Prompt ==
  /\ pc = "prompt"
  /\ \E user_input \in {"y", "n", ""} :
       LET r == Answer(user_input) IN
       /\ pc' = IF r = "skip" THEN "main" ELSE r
       /\ status' = IF r = "skip" THEN Report(cur, "SKIP") ELSE status
  /\ UNCHANGED <<cleaner, config, dst, idx, cur, locals, dst0, history>>

\* Mutant: the output file is opened for writing before the search loop.
Begin_OpensOutput ==
  /\ pc = "begin"
  /\ \E stat_ok \in BOOLEAN, size \in {SrcSize} :
       IF stat_ok THEN
         /\ pc' = "loop"
         /\ src_size' = size
         /\ min_quality' = MinQuality(args)
         /\ current_quality' = StartQuality
         /\ final_jxl_data' = None
         /\ final_method' = NoMethod
       ELSE
         /\ pc' = "crashed"
         /\ UNCHANGED locals
  /\ dst' = [dst EXCEPT ![OutputFile(all_files[cur])] = JxlBytes(cur, NoMethod, 0, 0)]
  /\ UNCHANGED <<cleaner, config, idx, cur, status, dst0, history>>

\* mkdir, stat, min_quality, current_quality = 90.  An OSError of stat is
\* caught nowhere: it ends main.
Begin ==
  /\ pc = "begin"
  /\ \E stat_ok \in BOOLEAN, size \in {SrcSize} :
       IF stat_ok THEN
         /\ pc' = "loop"
         /\ src_size' = size
         /\ min_quality' = MinQuality(args)
         /\ current_quality' = StartQuality
         /\ final_jxl_data' = None
         /\ final_method' = NoMethod
       ELSE
         /\ pc' = "crashed"
         /\ UNCHANGED locals
  /\ UNCHANGED <<cleaner, config, dst, idx, cur, status, dst0, history>>

\* ------------------------------------------------- the quality search loop
\* One iteration of `while True`: the try/except with its encoder and
\* decoder calls, then the size check logic.
Attempt ==
  /\ pc = "loop"
  /\ iters < MaxIters
  /\ LET p == all_files[cur]
         q == current_quality
     IN
     \E r1 \in CjxlCalls(~is_heic(p)) :
     \E r2 \in CjxlCalls(is_jpeg(p) /\ q = StartQuality /\ r1.code # 0) :
     \E p1 \in PillowCalls(is_heic(p), HAS_PILLOW) :
     \E p2 \in PillowCalls(Primary(p, q, HAS_PILLOW, r1, r2, p1).raised, HAS_PILLOW) :
       LET it == Iteration(p, q, HAS_PILLOW, r1, r2, p1, p2)
           rec == [q |-> q, calls |-> it.calls, len |-> it.len, failed |-> it.failed,
                   method |-> it.method, enc |-> it.enc, dec |-> it.dec]
       IN
       /\ iters' = iters + 1
       /\ tried' = tried \cup {q}
       /\ last' = rec
       /\ IF it.failed THEN
            \* [ERROR], the original kept unless --force-jxl, return
            /\ pc' = "main"
            /\ IF CopyOnFailure(args) THEN
                 /\ dst' = CopyOriginal(dst, cur, p)
                 /\ status' = [status EXCEPT ![cur] = @ \o <<"ERROR", "COPY">>]
               ELSE
                 /\ dst' = dst
                 /\ status' = Report(cur, "ERROR")
            /\ UNCHANGED locals
          ELSE IF Truthy(it.len) THEN
            IF Smaller(it.len, src_size) THEN
              /\ final_jxl_data' = JxlBytes(cur, it.method, q, it.len)
              /\ final_method' = it.method
              /\ pc' = "save"
              /\ UNCHANGED <<dst, status, src_size, min_quality, current_quality>>
            ELSE IF MayStepDown(q, min_quality) THEN
              /\ current_quality' = StepDown(q)
              /\ pc' = "loop"
              /\ UNCHANGED <<dst, status, src_size, min_quality, final_jxl_data, final_method>>
            ELSE
              /\ final_jxl_data' = JxlBytes(cur, it.method, q, it.len)
              /\ final_method' = it.method
              /\ pc' = "save"
              /\ UNCHANGED <<dst, status, src_size, min_quality, current_quality>>
          ELSE
            \* an empty payload is falsy: the loop runs again as it is
            /\ pc' = "loop"
            /\ UNCHANGED <<dst, status, locals>>
  /\ UNCHANGED <<cleaner, config, idx, cur, dst0>>

\* ----------------------------------------------------- final save decision
\* write_bytes and copy_metadata (exiftool rewrites the new file in place
\* when it is installed), or copy_original.
FinalSave ==
  /\ pc = "save"
  /\ pc' = "main"
  /\ LET p == all_files[cur]
         jxl_size == final_jxl_data.len
     IN
     IF Truthy(jxl_size) THEN
       IF ShouldPersist(jxl_size, src_size, args.force_jxl) THEN
         /\ \E exiftool \in BOOLEAN :
              dst' = [dst EXCEPT ![OutputFile(p)] = [final_jxl_data EXCEPT !.meta = exiftool]]
         /\ status' = Report(cur, SaveStatus(jxl_size, src_size))
       ELSE
         /\ dst' = CopyOriginal(dst, cur, p)
         /\ status' = Report(cur, "COPY")
     ELSE UNCHANGED <<dst, status>>
  /\ UNCHANGED <<cleaner, config, idx, cur, locals, dst0, history>>

Next ==
  \/ MainStep
  \/ MainDone
  \/ Prompt
  \/ Begin
  \/ Attempt
  \/ FinalSave

Spec == Init /\ [][Next]_vars

SpecBatch == InitBatch /\ [][Next]_vars

TypeOK ==
  /\ pc \in {"main", "prompt", "begin", "loop", "save", "finished", "crashed"}
  /\ idx \in 1..(NumFiles + 1)
  /\ cur \in 0..NumFiles
  /\ iters \in 0..MaxIters

\* ===================================================================
\* deleteduplicate.py: clean_duplicates_recursive
\* ===================================================================
\* The directories of the tree in the order os.walk yields them (top-down).
Dirs == <<"top", "sub">>
CleanStems == {"a", "b"}
\* Suffixes as spelled on disk.
CleanExts == {".jxl", ".JXL", ".jpg", ".JPG"}
KeepChoices == {".jxl", ".JXL", ".jpg"}
CleanFiles == [dir : {"top", "sub"}, stem : CleanStems, ext : CleanExts]

\* file_path.suffix.lower()
Lower(e) ==
  CASE e = ".JXL" -> ".jxl"
    [] e = ".JPG" -> ".jpg"
    [] OTHER -> e

\* Two names the file system takes for one file.
SameName(f, g, sensitive) ==
  /\ f.dir = g.dir
  /\ f.stem = g.stem
  /\ IF sensitive THEN f.ext = g.ext ELSE Lower(f.ext) = Lower(g.ext)

\* The trees of at most MaxEntries files that the file system can hold.
CleanTrees(sensitive) ==
  {t \in {{}} \cup {{f[i] : i \in 1..MaxEntries} : f \in [1..MaxEntries -> CleanFiles]} :
     \A f, g \in t : SameName(f, g, sensitive) => f = g}

\* `files` of one os.walk step: the files of the directory in any order.
Listings(d, tree) ==
  LET S == {f \in tree : f.dir = d}
      n == Cardinality(S)
  IN {l \in [1..n -> S] : \A i, j \in 1..n : l[i] = l[j] => i = j}

\* The keys of files_map in insertion order.
RECURSIVE Keys(_, _)
Keys(files, seen) ==
  IF files = <<>> THEN <<>>
  ELSE IF Head(files).stem \in seen THEN Keys(Tail(files), seen)
  ELSE <<Head(files).stem>> \o Keys(Tail(files), seen \cup {Head(files).stem})

\* files_map[base_name]: the lower-cased suffixes, in listing order.
RECURSIVE Extensions(_, _)
Extensions(files, base_name) ==
  IF files = <<>> THEN <<>>
  ELSE (IF Head(files).stem = base_name THEN <<Lower(Head(files).ext)>> ELSE <<>>)
         \o Extensions(Tail(files), base_name)

\* Mutant: every group of more than one file is cleaned, with or without a
\* file of the keep extension in it.
RemovalsFor_AnyGroup(base_name, extensions, keep) ==
  IF Len(extensions) > 1
  THEN LET rest == SelectSeq(extensions, LAMBDA e : e # keep) IN
       [k \in 1..Len(rest) |-> [base_name |-> base_name, ext |-> rest[k]]]
  ELSE <<>>

\* if keep_extension in extensions and len(extensions) > 1: for ext in
\* extensions: if ext == keep_extension: continue; base_name + ext
RemovalsFor(base_name, extensions, keep) ==
  IF (\E k \in 1..Len(extensions) : extensions[k] = keep) /\ Len(extensions) > 1
  THEN LET rest == SelectSeq(extensions, LAMBDA e : e # keep) IN
       [k \in 1..Len(rest) |-> [base_name |-> base_name, ext |-> rest[k]]]
  ELSE <<>>

\* for base_name, extensions in files_map.items(): the names to remove in
\* the current directory, in order.
RECURSIVE Removals(_, _, _)
Removals(keys, files, keep) ==
  IF keys = <<>> THEN <<>>
  ELSE RemovalsFor(Head(keys), Extensions(files, Head(keys)), keep)
         \o Removals(Tail(keys), files, keep)

\* The file a path names on disk, if any.
OnDisk(tree, path, sensitive) == {f \in tree : SameName(f, path, sensitive)}

\* convertojpgxl.py is not running.
ConverterIdle ==
  /\ args = [force_jxl |-> FALSE, overwrite |-> FALSE, skip |-> FALSE,
             compress_lq |-> FALSE, compress_mq |-> FALSE, compress_hq |-> FALSE,
             copy |-> {}]
  /\ HAS_PILLOW = TRUE
  /\ all_files = <<>>
  /\ dst = [p \in DstPaths |-> NoFile]
  /\ Start

\* A call of clean_duplicates_recursive with any keep extension, with or
\* without dry_run, over any tree of at most MaxEntries files.
InitClean ==
  /\ keep_extension \in KeepChoices
  /\ dry_run \in BOOLEAN
  /\ case_sensitive \in BOOLEAN
  /\ fs \in CleanTrees(case_sensitive)
  /\ fs0 = fs
  /\ cpc = "start"
  /\ walk = <<>>
  /\ current_dir = "top"
  /\ todo = <<>>
  /\ total_deleted = 0
  /\ ConverterIdle

\* if not target_path.exists(): return; total_deleted = 0; os.walk begins.
\* A directory without files may exist or not.
CleanStart ==
  /\ cpc = "start"
  /\ \E exists \in (IF fs = {} THEN BOOLEAN ELSE {TRUE}) :
     \E sub \in (IF \E f \in fs : f.dir = "sub" THEN {TRUE} ELSE BOOLEAN) :
       IF exists THEN
         /\ cpc' = "walk"
         /\ walk' = IF sub THEN Dirs ELSE <<"top">>
       ELSE
         /\ cpc' = "done"
         /\ walk' = walk
  /\ total_deleted' = 0
  /\ UNCHANGED <<keep_extension, dry_run, case_sensitive, fs, fs0, current_dir, todo>>
  /\ UNCHANGED converter

\* for root, dirs, files in os.walk(target_path): files_map is built from
\* the listing of the directory.
WalkDir ==
  /\ cpc = "walk"
  /\ todo = <<>>
  /\ walk # <<>>
  /\ current_dir' = Head(walk)
  /\ walk' = Tail(walk)
  /\ \E files \in Listings(Head(walk), fs) :
       todo' = Removals(Keys(files, {}), files, keep_extension)
  /\ UNCHANGED <<keep_extension, dry_run, case_sensitive, fs, fs0, cpc, total_deleted>>
  /\ UNCHANGED converter

\* file_to_remove = current_dir / (base_name + ext); under dry_run it is
\* only printed, otherwise os.remove, whose OSError is caught.
TryRemove ==
  /\ cpc = "walk"
  /\ todo # <<>>
  /\ todo' = Tail(todo)
  /\ LET file_to_remove ==
           [dir |-> current_dir, stem |-> Head(todo).base_name, ext |-> Head(todo).ext]
         found == OnDisk(fs, file_to_remove, case_sensitive)
     IN
     IF dry_run THEN UNCHANGED <<fs, total_deleted>>
     ELSE \E removed \in (IF found = {} THEN {FALSE} ELSE BOOLEAN) :
            IF removed THEN
              /\ fs' = fs \ found
              /\ total_deleted' = total_deleted + 1
            ELSE UNCHANGED <<fs, total_deleted>>
  /\ UNCHANGED <<keep_extension, dry_run, case_sensitive, fs0, cpc, walk, current_dir>>
  /\ UNCHANGED converter

\* The closing prints.
CleanDone ==
  /\ cpc = "walk"
  /\ todo = <<>>
  /\ walk = <<>>
  /\ cpc' = "done"
  /\ UNCHANGED <<keep_extension, dry_run, case_sensitive, fs, fs0, walk, current_dir,
                 todo, total_deleted>>
  /\ UNCHANGED converter

NextClean ==
  \/ CleanStart
  \/ WalkDir
  \/ TryRemove
  \/ CleanDone

SpecClean == InitClean /\ [][NextClean]_vars

\* ===================================================================
\* Properties
\* ===================================================================
\* The quality floor the configuration asks for: Default 90, HQ 85, MQ 80,
\* LQ 75.
QualityFloor ==
  CASE args.compress_lq -> 75
    [] args.compress_mq -> 80
    [] args.compress_hq -> 85
    [] OTHER -> 90

CurFile == all_files[cur]
CurOutput == OutputFile(CurFile)
CurCopy == CopyTarget(CurFile)
\* The bytes of a file without what exiftool added to them.
Payload(c) == [c EXCEPT !.meta = FALSE]
\* process_file (or the direct copy) of the current item has returned.
Returned == cur # 0 /\ pc \in {"main", "finished"}
\* The search loop of the current file ended with a final payload and the
\* final save decision has been carried out.
Saved == Returned /\ iters > 0 /\ ~last.failed
LastPayload == JxlBytes(cur, last.method, last.q, last.len)

\* C1: every quality level attempted for a file is a multiple of 5 within
\* [qualityFloor, 90]; the levels never increase from one attempt to the
\* next (the last attempt is the lowest one made, the next one is not
\* above it); with floor 85 only 90 and 85 are attempted.
Thm_C1 ==
  iters > 0 =>
    /\ \A q \in tried : q % 5 = 0 /\ QualityFloor <= q /\ q <= 90 /\ last.q <= q
    /\ last.q \in tried
    /\ current_quality <= last.q
    /\ current_quality % 5 = 0 /\ QualityFloor <= current_quality
    /\ (QualityFloor = 85 => tried \subseteq {90, 85})

Wit_C1 == args.compress_hq /\ tried = {90, 85} /\ pc = "save"

\* C2: the search loop ends after at most (90 - qualityFloor)/5 + 1
\* iterations, whatever the encoders return (empty payloads included).
Cex_C2 == iters <= (90 - QualityFloor) \div 5 + 1

\* C3 (as stated): after the final save decision the payload is at the .jxl
\* path iff it is smaller than the source or force is set; otherwise the
\* .jxl path is not written and the copy path holds the original's bytes.
Cex_C3 ==
  Saved =>
    IF final_jxl_data.len < src_size \/ args.force_jxl
    THEN Payload(dst[CurOutput]) = final_jxl_data
    ELSE /\ dst[CurOutput] = dst0[CurOutput]
         /\ dst[CurCopy] = SrcBytes(cur)

\* C3 (amended): as above, but when the payload is not persisted the
\* original's bytes are copied only if nothing is at the copy path yet; a
\* file already there keeps its bytes.  No other path changes.
Thm_C3 ==
  Saved =>
    /\ final_jxl_data = LastPayload
    /\ IF final_jxl_data.len < src_size \/ args.force_jxl
       THEN /\ Payload(dst[CurOutput]) = final_jxl_data
            /\ \A p \in DstPaths \ {CurOutput} : dst[p] = dst0[p]
       ELSE /\ dst[CurOutput] = dst0[CurOutput]
            /\ dst[CurCopy] =
                 IF Exists(dst0, CurCopy) THEN dst0[CurCopy] ELSE SrcBytes(cur)
            /\ \A p \in DstPaths \ {CurCopy} : dst[p] = dst0[p]

Wit_C3 ==
  /\ Saved
  /\ final_jxl_data.len = src_size
  /\ ~args.force_jxl
  /\ ~Exists(dst, CurOutput)
  /\ dst[CurCopy] = SrcBytes(cur)

\* C4: with force set and a final payload not smaller than the source, the
\* outcome is FORCED and the .jxl path holds the payload of the last
\* attempt, which was made at the floor quality: neither the source bytes
\* nor the payload of an earlier attempt.
Thm_C4 ==
  (Saved /\ args.force_jxl /\ last.len >= src_size) =>
    /\ status[cur] = <<"FORCED">>
    /\ last.q = QualityFloor
    /\ Payload(dst[CurOutput]) = LastPayload
    /\ dst[CurOutput].len = last.len

Wit_C4 ==
  /\ Saved
  /\ args.force_jxl
  /\ args.compress_lq
  /\ tried = {90, 85, 80, 75}
  /\ last.len > src_size
  /\ status[cur] = <<"FORCED">>
  /\ dst[CurOutput].q = 75

\* C5: when the strategies and the fallback fail at some quality level, the
\* file ends there with ERROR reported first: no attempt follows at a lower
\* level, and the .jxl path is as it was when process_file began.
Thm_C5 ==
  (iters > 0 /\ last.failed) =>
    /\ Returned
    /\ Len(status[cur]) > 0 /\ status[cur][1] = "ERROR"
    /\ current_quality = last.q
    /\ \A q \in tried : last.q <= q
    /\ dst[CurOutput] = dst0[CurOutput]

Wit_C5 ==
  /\ last.failed
  /\ last.q = 80
  /\ tried = {90, 85, 80}
  /\ status[cur] = <<"ERROR", "COPY">>
  /\ ~Exists(dst, CurOutput)

\* C6: a file that ends SKIP had no encoder or decoder run and left the
\* destination tree as it was; under AlwaysSkip every file whose .jxl
\* exists ends SKIP.
Thm_C6 ==
  /\ (cur # 0 /\ status[cur] # <<>> /\ status[cur][1] = "SKIP") =>
       /\ iters = 0
       /\ last = NoIter
       /\ dst = dst0
       /\ status[cur] = <<"SKIP">>
       /\ Returned
  /\ (cur # 0 /\ args.skip /\ CurFile.ext \in IMAGE_EXTS \ args.copy
        /\ Exists(dst0, CurOutput)) =>
       status[cur] = <<"SKIP">>

Wit_C6 ==
  /\ cur # 0
  /\ ~args.skip /\ ~args.overwrite
  /\ status[cur] = <<"SKIP">>
  /\ Exists(dst, CurOutput)
  /\ pc = "finished"

\* C7: when the first encoder run of the quality-90 iteration (the lossless
\* transcode for a JPEG, the direct quality-90 encode for the other native
\* formats) succeeds with a payload smaller than the source, it is the only
\* encoder run made for the file and the outcome quality is 90.
Cex_C7 ==
  (iters = 1 /\ ~last.failed /\ last.calls \in {<<"LosslessTranscode">>, <<"QualityReencode">>}
     /\ last.len < src_size) =>
    /\ last.enc = 1
    /\ pc # "loop"
    /\ final_jxl_data = LastPayload
    /\ final_jxl_data.q = 90

\* C8: a failure while one file is processed never aborts the batch: when
\* the run has ended, whether by completing or by an uncaught error, every
\* image file of the source tree has been taken up by main.
Cex_C8 ==
  pc \in {"finished", "crashed"} =>
    \A i \in 1..Len(all_files) : all_files[i].ext \in IMAGE_EXTS => i < idx

\* C9: two files of one run share no destination path and no state: the
\* file being processed finds at its .jxl path and at its copy path nothing
\* that another file of the run wrote, and a run into an empty destination
\* tree never reports SKIP.
Cex_C9 ==
  cur # 0 =>
    /\ dst0[CurOutput].file \in {0, cur}
    /\ dst0[CurCopy].file \in {0, cur}
    /\ \A i \in 1..Len(all_files) :
         \A k \in 1..Len(status[i]) : status[i][k] # "SKIP"

\* C10 (as stated): under AlwaysOverwrite a file whose .jxl exists is
\* processed and afterwards the .jxl path no longer holds its old bytes.
Cex_C10 ==
  (Returned /\ args.overwrite /\ CurFile.ext \in IMAGE_EXTS \ args.copy
     /\ Exists(dst0, CurOutput)) =>
    dst[CurOutput] # dst0[CurOutput]

\* C10 (amended): under AlwaysOverwrite a file whose .jxl exists is
\* processed (never skipped, never prompted for); the .jxl path holds the
\* final payload when the file ends OK or FORCED, and keeps its old bytes
\* when the file ends COPY or ERROR.
Thm_C10 ==
  (cur # 0 /\ args.overwrite /\ CurFile.ext \in IMAGE_EXTS \ args.copy
     /\ Exists(dst0, CurOutput)) =>
    /\ pc # "prompt"
    /\ Returned =>
         /\ iters > 0
         /\ status[cur] # <<>>
         /\ status[cur][1] \in {"OK", "FORCED", "COPY", "ERROR"}
         /\ IF status[cur][1] \in {"OK", "FORCED"}
            THEN Payload(dst[CurOutput]) = final_jxl_data /\ final_jxl_data = LastPayload
            ELSE dst[CurOutput] = dst0[CurOutput]

Wit_C10 ==
  /\ Returned
  /\ args.overwrite
  /\ dst0[CurOutput] = OldBytes
  /\ status[cur] = <<"OK">>
  /\ dst[CurOutput].kind = "jxl"

\* The last iteration of a HEIC/HEIF file ended on decode failures: both
\* Pillow calls of the iteration opened the file and none reached cjxl.
HeicDecodeFailed ==
  /\ cur # 0 /\ iters > 0
  /\ is_heic(CurFile)
  /\ last.failed /\ last.dec = 2 /\ last.enc = 0

Thm_C12 ==
  cur # 0 =>
    /\ dst[CurOutput] # dst0[CurOutput] =>
         /\ Returned
         /\ iters > 0 /\ ~last.failed
         /\ status[cur] \in {<<"OK">>, <<"FORCED">>}
         /\ status[cur] = <<"OK">> => last.len < src_size
         /\ status[cur] = <<"FORCED">> => args.force_jxl /\ last.len >= src_size
         /\ Payload(dst[CurOutput]) = LastPayload
    /\ pc \in {"prompt", "begin", "loop", "save", "crashed"} =>
         dst[CurOutput] = dst0[CurOutput]
    /\ (status[cur] # <<>> /\ status[cur][1] \in {"SKIP", "COPY", "ERROR"}) =>
         dst[CurOutput] = dst0[CurOutput]

Wit_C12 ==
  /\ Returned
  /\ iters = 2
  /\ tried = {90, 85}
  /\ status[cur] = <<"OK">>
  /\ dst0[CurOutput] = NoFile
  /\ dst[CurOutput].kind = "jxl"
  /\ dst[CurOutput].q = 85

\* C13: once a file handed to process_file is done with (process_file has
\* returned, or an uncaught error has ended it), exactly one of OK, FORCED,
\* SKIP, COPY, ERROR has been reported for it.
Cex_C13 ==
  (cur # 0 /\ CurFile.ext \in IMAGE_EXTS \ args.copy
     /\ pc \in {"main", "finished", "crashed"}) =>
    /\ Len(status[cur]) = 1
    /\ status[cur][1] \in {"OK", "FORCED", "SKIP", "COPY", "ERROR"}

\* C14: an attempt that yields a payload strictly smaller than the source
\* is accepted as final at once, so the accepted attempt is the first such
\* one in the order 90, 85, ...; an attempt that is not smaller is accepted
\* only at the floor, and otherwise the next attempt is made 5 lower.
Cex_C14 ==
  (iters > 0 /\ ~last.failed) =>
    /\ last.len < src_size => pc # "loop" /\ final_jxl_data = LastPayload
    /\ pc # "loop" =>
         /\ final_jxl_data = LastPayload
         /\ last.len < src_size \/ last.q = QualityFloor
    /\ pc = "loop" => current_quality = last.q - 5 /\ current_quality >= QualityFloor

\* The strategies of the last iteration that ran before its last one.
Selected == SubSeq(last.calls, 1, Len(last.calls) - 1)

\* C15: the strategies run in one loop iteration, in their order, are: for
\* a JPEG at quality 90 the lossless transcode, then (if it failed) the
\* quality re-encode; for a JPEG at a lower quality and for the other
\* non-HEIC formats the quality re-encode alone; for HEIC/HEIF nothing but
\* the fallback decode+encode.  For a non-HEIC file the fallback
\* decode+encode runs last and only when the strategies before it all
\* failed: an iteration without it ends with the result of its last
\* strategy, an iteration with it ends failed or with the fallback's result.
Thm_C15 ==
  iters > 0 =>
    LET c == last.calls
        q == last.q
        F == <<"FallbackDecodeEncode">>
        native == IF is_jpeg(CurFile) /\ q = StartQuality
                  THEN {<<"LosslessTranscode">>, <<"LosslessTranscode", "QualityReencode">>}
                  ELSE {<<"QualityReencode">>}
        all == IF is_jpeg(CurFile) /\ q = StartQuality
               THEN <<"LosslessTranscode", "QualityReencode">>
               ELSE <<"QualityReencode">>
    IN
    IF is_heic(CurFile)
    THEN c \in {F, F \o F}
    ELSE /\ c \in native \cup {all \o F}
         /\ c \in native =>
              /\ ~last.failed
              /\ last.method \in {<<"JPEG-Transcode">>, <<"JPEG-ReEncode-Q", q>>,
                                  <<"Direct-CJXL-Q", q>>}
              /\ last.method = <<"JPEG-Transcode">> <=> c = <<"LosslessTranscode">>
         /\ c = all \o F =>
              /\ Selected = all
              /\ last.failed \/ last.method = <<"Fallback-Pillow-Q", q>>
         /\ q < StartQuality => \A k \in 1..Len(c) : c[k] # "LosslessTranscode"

Wit_C15 ==
  /\ iters = 1
  /\ is_jpeg(CurFile)
  /\ last.calls = <<"LosslessTranscode", "QualityReencode", "FallbackDecodeEncode">>
  /\ ~last.failed
  /\ last.method = <<"Fallback-Pillow-Q", 90>>
  /\ pc = "save"

\* C16: a failed run of the fallback decode+encode is the last decoder or
\* encoder run made for the file: the iteration it happens in is the last
\* one (process_file returns), and no iteration opens the file for decoding
\* a second time, which it does only after a first decode+encode failed.
Cex_C16 ==
  iters > 0 =>
    /\ last.failed => Returned
    /\ last.dec <= 1
    /\ Len(SelectSeq(last.calls, LAMBDA s : s = "FallbackDecodeEncode")) <= 1 \/ ~HAS_PILLOW

\* C17: of the files the tree held before the run, clean_duplicates_recursive
\* has removed none whose lower-cased extension is keep_extension, and each
\* file it has removed has, in its directory, a file of the same stem whose
\* lower-cased extension is keep_extension and which is still there; under
\* dry_run the tree is as it was.  Nothing is added to the tree, and
\* total_deleted counts the files removed.
Thm_C17 ==
  /\ fs \subseteq fs0
  /\ \A f \in fs0 \ fs :
       /\ Lower(f.ext) # keep_extension
       /\ \E k \in fs :
            /\ k.dir = f.dir
            /\ k.stem = f.stem
            /\ Lower(k.ext) = keep_extension
  /\ dry_run => fs = fs0 /\ total_deleted = 0
  /\ total_deleted = Cardinality(fs0 \ fs)

Wit_C17 ==
  /\ cpc = "done"
  /\ ~dry_run
  /\ case_sensitive
  /\ fs0 = {[dir |-> "top", stem |-> "a", ext |-> ".JXL"],
            [dir |-> "top", stem |-> "a", ext |-> ".jpg"],
            [dir |-> "sub", stem |-> "a", ext |-> ".jpg"]}
  /\ fs = fs0 \ {[dir |-> "top", stem |-> "a", ext |-> ".jpg"]}
  /\ total_deleted = 1
====
